---- MODULE Spec2Model ----
(***************************************************************************)
(* Model of NeuralNet_FunctionApproximation.ipynb: the multilayer          *)
(* perceptron builder get_multilayer_perceptron, the weight initializer    *)
(* init_weights applied with Module.apply, and the notebook cells that     *)
(* build, initialize and evaluate networks.                                *)
(*                                                                         *)
(* Modules are objects in a heap (a sequence, the index is the object's    *)
(* identity), because the builder shares one activation object between    *)
(* all the containers and init_weights mutates parameters in place.        *)
(* A parameter tensor is abstracted to its shape, the distribution it was  *)
(* last filled from and the number of the random draw that filled it       *)
(* (0 = the library's default initialisation at construction).             *)
(***************************************************************************)
EXTENDS Integers, Sequences, FiniteSets, TLC

\* ---------------------------------------------------------------- bounds
MaxHidden == 3      \* n_hidden_layers ranges over -1 .. MaxHidden
MaxDim == 2         \* n_network, n_class, n_hidden_dimension range over 1 .. MaxDim
MaxCalls == 3       \* apply / forward calls made on one network
NSamples == 3       \* number of input samples a cell evaluates per run

\* ------------------------------------------------------ program constants
NormalMean == 0
NormalStdTenths == 5
num_layers == 6
n_hidden_dimension == 32
nruns7 == 5
nruns9 == 10

HiddenCounts == (0 - 1) .. MaxHidden
Dims == 1 .. MaxDim
ActivationArgs == {"tanh", "relu", "sigmoid"}

\* ------------------------------------------------------------ parameters
DefaultDist == [kind |-> "default", mean |-> 0, stdTenths |-> 0]
NormalDist(mean, stdTenths) == [kind |-> "normal", mean |-> mean, stdTenths |-> stdTenths]

Parameter(shape) == [shape |-> shape, draw |-> 0, dist |-> DefaultDist]

\* tensor.normal_(mean, std): same shape, fresh values
normal_(p, mean, stdTenths, d) ==
    [p EXCEPT !.draw = d, !.dist = NormalDist(mean, stdTenths)]

\* --------------------------------------------------------------- modules
Linear(nin, nout) ==
    [type |-> "Linear", in_features |-> nin, out_features |-> nout,
     weight |-> Parameter(<<nout, nin>>), bias |-> Parameter(<<nout>>)]

Tanh == [type |-> "Tanh"]
ReLU == [type |-> "ReLU"]

Sequential(children) == [type |-> "Sequential", children |-> children]

\* ------------------------------------------- get_multilayer_perceptron
\* the if / elif / else on the activation argument
ActivationFnRaiseNever(activation) ==
    IF activation = "relu" THEN ReLU ELSE Tanh

ActivationFn(activation) ==
    IF activation = "tanh" THEN Tanh
    ELSE IF activation = "relu" THEN ReLU
    ELSE [type |-> "raise"]

\* len(range(n))
RangeLenAbs(n) == IF n > 0 THEN n ELSE 0 - n

RangeLen(n) == IF n > 0 THEN n ELSE 0

\* number of iterations of `for i in range(n_hidden_layers - 1)`
HiddenIterationsOffByOne(n_hidden_layers) == RangeLen(n_hidden_layers)

HiddenIterations(n_hidden_layers) == RangeLen(n_hidden_layers - 1)

\* children of the container built by one loop iteration
HiddenBlockSwapped(model, lin, act) == <<model, act, lin>>

HiddenBlock(model, lin, act) == <<model, lin, act>>

\* children of the final container
OutputBlockFlat(h, model, lin) == h[model].children \o <<lin>>

OutputBlock(h, model, lin) == <<model, lin>>

RECURSIVE HiddenLoop(_, _, _, _, _)
HiddenLoop(h, model, k, dim, act) ==
    IF k = 0 THEN [heap |-> h, model |-> model]
    ELSE LET h1 == Append(h, Linear(dim, dim))
             h2 == Append(h1, Sequential(HiddenBlock(model, Len(h1), act)))
         IN  HiddenLoop(h2, Len(h2), k - 1, dim, act)

get_multilayer_perceptron(h, n_network, n_class, n_hidden_layers, n_hidden_dim, activation) ==
    LET activationfn == ActivationFn(activation) IN
    IF activationfn.type = "raise"
    THEN [raised |-> TRUE, heap |-> h, model |-> 0]
    ELSE LET h1 == Append(h, activationfn)
             act == Len(h1)
             h2 == Append(h1, Linear(n_network, n_hidden_dim))
             h3 == Append(h2, Sequential(<<Len(h2), act>>))
             lp == HiddenLoop(h3, Len(h3), HiddenIterations(n_hidden_layers),
                              n_hidden_dim, act)
             h4 == Append(lp.heap, Linear(n_hidden_dim, n_class))
             h5 == Append(h4, Sequential(OutputBlock(h4, lp.model, Len(h4))))
         IN  [raised |-> FALSE, heap |-> h5, model |-> Len(h5)]

\* ----------------------------------------------------------- init_weights
init_weightsResize(h, m, d) ==
    IF h[m].type = "Linear"
    THEN [heap |-> [h EXCEPT ![m].weight =
                        normal_(@, NormalMean, NormalStdTenths, d + 1),
                              ![m].bias =
                        normal_(Parameter(h[m].weight.shape), NormalMean,
                                NormalStdTenths, d + 2)],
          draws |-> d + 2]
    ELSE [heap |-> h, draws |-> d]

init_weightsUnitBias(h, m, d) ==
    IF h[m].type = "Linear"
    THEN [heap |-> [h EXCEPT ![m].weight =
                        normal_(@, NormalMean, NormalStdTenths, d + 1),
                              ![m].bias = normal_(@, 0, 10, d + 2)],
          draws |-> d + 2]
    ELSE [heap |-> h, draws |-> d]

init_weights(h, m, d) ==
    IF h[m].type = "Linear"
    THEN [heap |-> [h EXCEPT ![m].weight =
                        normal_(@, NormalMean, NormalStdTenths, d + 1),
                              ![m].bias =
                        normal_(@, NormalMean, NormalStdTenths, d + 2)],
          draws |-> d + 2]
    ELSE [heap |-> h, draws |-> d]

\* Module.children(): the direct submodules of a module
childrenLeavesOnly(h, m) ==
    IF h[m].type = "Sequential"
    THEN SelectSeq(h[m].children, LAMBDA c : h[c].type # "Sequential")
    ELSE <<>>

children(h, m) ==
    IF h[m].type = "Sequential" THEN h[m].children ELSE <<>>

\* Module.apply(fn): apply to every child recursively, then fn(self)
RECURSIVE apply(_, _, _)
RECURSIVE applyChildren(_, _, _)
applyChildren(h, cs, d) ==
    IF cs = <<>> THEN [heap |-> h, draws |-> d]
    ELSE LET r == apply(h, Head(cs), d)
         IN  \* a child's traversal completes before its siblings are visited
             \* (the test is never true; it makes the evaluation order strict)
             IF r.draws < d THEN r
             ELSE applyChildren(r.heap, Tail(cs), r.draws)

apply(h, m, d) ==
    LET r == applyChildren(h, children(h, m), d)
    IN  init_weights(r.heap, m, r.draws)

\* ---------------------------------------------------------------- forward
\* A value flowing through the network: its length, the parameter draws it
\* depends on (in evaluation order) and whether every layer accepted it.
Input(len) == [len |-> len, reads |-> <<>>, ok |-> TRUE]

RECURSIVE forward(_, _, _)
RECURSIVE forwardChildren(_, _, _)
forwardChildren(h, cs, x) ==
    IF cs = <<>> THEN x
    ELSE LET y == forward(h, Head(cs), x)
         IN  \* a layer that rejects its input raises: the rest is not evaluated
             IF ~y.ok THEN y ELSE forwardChildren(h, Tail(cs), y)

forward(h, m, x) ==
    IF h[m].type = "Sequential" THEN forwardChildren(h, h[m].children, x)
    ELSE IF h[m].type = "Linear"
    THEN [len |-> h[m].out_features,
          reads |-> x.reads \o <<h[m].weight.draw, h[m].bias.draw>>,
          ok |-> x.ok /\ x.len = h[m].in_features]
    ELSE x

\* ------------------------------------------------- structural observers
\* leaves in depth-first (evaluation) order
RECURSIVE Flatten(_, _)
RECURSIVE FlattenChildren(_, _)
FlattenChildren(h, cs) ==
    IF cs = <<>> THEN <<>>
    ELSE Flatten(h, Head(cs)) \o FlattenChildren(h, Tail(cs))

Flatten(h, m) ==
    IF h[m].type = "Sequential" THEN FlattenChildren(h, h[m].children)
    ELSE <<m>>

RECURSIVE Depth(_, _)
RECURSIVE DepthChildren(_, _)
DepthChildren(h, cs) ==
    IF cs = <<>> THEN 0
    ELSE LET a == Depth(h, Head(cs))
             b == DepthChildren(h, Tail(cs))
         IN  IF a > b THEN a ELSE b

Depth(h, m) ==
    IF h[m].type = "Sequential" THEN 1 + DepthChildren(h, h[m].children)
    ELSE 0

Describe(m) ==
    IF m.type = "Linear" THEN <<"Affine", m.in_features, m.out_features>>
    ELSE <<"Activation", m.type, 0>>

FlatDesc(h, m) ==
    LET f == Flatten(h, m) IN [i \in 1 .. Len(f) |-> Describe(h[f[i]])]

LinearsOf(h, m) == SelectSeq(Flatten(h, m), LAMBDA c : h[c].type = "Linear")

ObjStructure(o) ==
    IF o.type = "Linear"
    THEN [type |-> o.type, in_features |-> o.in_features,
          out_features |-> o.out_features,
          wshape |-> o.weight.shape, bshape |-> o.bias.shape]
    ELSE IF o.type = "Sequential"
    THEN [type |-> o.type, children |-> o.children]
    ELSE [type |-> o.type]

Structure(h) == [i \in 1 .. Len(h) |-> ObjStructure(h[i])]

\* ------------------------------------------------------------------ state
VARIABLES
    heap,      \* the module objects, by identity
    heap0,     \* the heap as it was when the last network was returned
    env,       \* the caller's variables net, net3, net7 (0 = unbound)
    args,      \* arguments of the last get_multilayer_perceptron call
    raised,    \* whether that call raised NotImplementedError
    draws,     \* number of random tensors drawn so far
    inits,     \* per object: apply(init_weights) calls made on it as a root
    lastOp,    \* "none", "build", "apply" or "eval"
    out,       \* the value returned by the last forward evaluation
    ncalls,    \* apply / forward calls made so far
    built,     \* [cell, k, var, net] for every network a cell built
    evalLog,   \* [net, cell, k, run, reads, inits] for every evaluation
    pc, k, run, i   \* position of the notebook's cells

vars == <<heap, heap0, env, args, raised, draws, inits, lastOp, out, ncalls,
          built, evalLog, pc, k, run, i>>

NoArgs == [n_network |-> 0, n_class |-> 0, n_hidden_layers |-> 0,
           n_hidden_dimension |-> 0, activation |-> "none"]

MkArgs(a, b, c, d, e) ==
    [n_network |-> a, n_class |-> b, n_hidden_layers |-> c,
     n_hidden_dimension |-> d, activation |-> e]

Common ==
    /\ heap = <<>>
    /\ heap0 = <<>>
    /\ env = [net |-> 0, net3 |-> 0, net7 |-> 0]
    /\ args = NoArgs
    /\ raised = FALSE
    /\ draws = 0
    /\ inits = <<>>
    /\ lastOp = "none"
    /\ out = Input(0)
    /\ ncalls = 0
    /\ built = {}
    /\ evalLog = {}
    /\ k = 1
    /\ run = 1
    /\ i = 1

Init == Common /\ pc = "api"

\* v = get_multilayer_perceptron(a): on a raise the assignment does not happen
Assign(v, a) ==
    LET r == get_multilayer_perceptron(heap, a.n_network, a.n_class,
                 a.n_hidden_layers, a.n_hidden_dimension, a.activation)
    IN  /\ args' = a
        /\ raised' = r.raised
        /\ heap' = r.heap
        /\ lastOp' = "build"
        /\ IF r.raised
           THEN UNCHANGED <<env, heap0, inits>>
           ELSE /\ env' = [env EXCEPT ![v] = r.model]
                /\ heap0' = r.heap
                /\ inits' = inits \o [j \in 1 .. Len(r.heap) - Len(heap) |-> 0]

\* env[v].apply(init_weights)
ApplyInit(v) ==
    LET r == apply(heap, env[v], draws)
    IN  /\ heap' = r.heap
        /\ draws' = r.draws
        /\ inits' = [inits EXCEPT ![env[v]] = @ + 1]
        /\ lastOp' = "apply"

\* env[v](x) for an input vector of length len
Eval(v, len) ==
    /\ out' = forward(heap, env[v], Input(len))
    /\ lastOp' = "eval"

Build ==
    /\ pc = "api"
    /\ env.net = 0
    /\ \E a \in Dims, b \in Dims, c \in HiddenCounts, d \in Dims,
          e \in ActivationArgs : Assign("net", MkArgs(a, b, c, d, e))
    /\ UNCHANGED <<draws, out, ncalls, built, evalLog, pc, k, run, i>>

Reinitialize ==
    /\ pc = "api"
    /\ env.net # 0
    /\ ncalls < MaxCalls
    /\ ApplyInit("net")
    /\ ncalls' = ncalls + 1
    /\ UNCHANGED <<heap0, env, args, raised, out, built, evalLog, pc, k, run, i>>

Evaluate ==
    /\ pc = "api"
    /\ env.net # 0
    /\ ncalls < MaxCalls
    /\ \E len \in Dims : Eval("net", len)
    /\ ncalls' = ncalls + 1
    /\ UNCHANGED <<heap, heap0, env, args, raised, draws, inits, built,
                   evalLog, pc, k, run, i>>

Next == Build \/ Reinitialize \/ Evaluate

Spec == Init /\ [][Next]_vars

\* ------------------------------------------------------ the notebook cells
afns == <<"tanh", "relu">>        \* zip([ax1, ax2], ['tanh', 'relu'])
layer_counts == <<3, 7>>           \* zip([ax1, ax2], [3, 7])

FlowInit == Common /\ pc = "c7_build"

LogBuild(cell, v) ==
    built' = built \cup {[cell |-> cell, k |-> k, var |-> v, net |-> env'[v]]}

LogEval(cell, v, r) ==
    evalLog' = evalLog \cup
        {[net |-> env[v], cell |-> cell, k |-> k, run |-> r,
          reads |-> out'.reads, inits |-> inits[env[v]]]}

\* net = get_multilayer_perceptron(...) at the top of an outer iteration
CellBuild(cell, a, nextpc) ==
    /\ Assign("net", a)
    /\ IF raised' THEN pc' = "aborted" /\ UNCHANGED built
                  ELSE pc' = nextpc /\ LogBuild(cell, "net")
    /\ run' = 1
    /\ UNCHANGED <<draws, out, ncalls, evalLog, k, i>>

\* net.apply(init_weights) at the top of a run
CellApply(nextpc) ==
    /\ ApplyInit("net")
    /\ pc' = nextpc
    /\ i' = 1
    /\ UNCHANGED <<heap0, env, args, raised, out, ncalls, built, evalLog, k, run>>

\* one iteration of `for i in x`, and the loop exits that follow it
CellEval(cell, nruns, applypc, buildpc, exitpc) ==
    /\ Eval("net", 1)
    /\ LogEval(cell, "net", run)
    /\ IF i < NSamples
       THEN i' = i + 1 /\ UNCHANGED <<pc, run, k>>
       ELSE IF run < nruns
       THEN run' = run + 1 /\ pc' = applypc /\ UNCHANGED <<i, k>>
       ELSE IF k < 2
       THEN k' = k + 1 /\ pc' = buildpc /\ UNCHANGED <<i, run>>
       ELSE k' = 1 /\ pc' = exitpc /\ UNCHANGED <<i, run>>
    /\ UNCHANGED <<heap, heap0, env, args, raised, draws, inits, ncalls, built>>

Cell7Build ==
    /\ pc = "c7_build"
    /\ CellBuild(7, MkArgs(1, 1, num_layers, n_hidden_dimension, afns[k]), "c7_apply")

Cell7Apply == pc = "c7_apply" /\ CellApply("c7_eval")

Cell7Eval == pc = "c7_eval" /\ CellEval(7, nruns7, "c7_apply", "c7_build", "c9_build")

Cell9Build ==
    /\ pc = "c9_build"
    /\ CellBuild(9, MkArgs(1, 1, layer_counts[k], n_hidden_dimension, "tanh"), "c9_apply")

Cell9Apply == pc = "c9_apply" /\ CellApply("c9_eval")

Cell9Eval == pc = "c9_eval" /\ CellEval(9, nruns9, "c9_apply", "c9_build", "c11_build3")

\* net3 = ..., net7 = ...
Cell11BuildStep(v, n, nextpc) ==
    /\ Assign(v, MkArgs(2, 1, n, n_hidden_dimension, "tanh"))
    /\ IF raised' THEN pc' = "aborted" /\ UNCHANGED built
                  ELSE pc' = nextpc /\ LogBuild(11, v)
    /\ UNCHANGED <<draws, out, ncalls, evalLog, k, run, i>>

Cell11Build3 == pc = "c11_build3" /\ Cell11BuildStep("net3", 3, "c11_build7")

Cell11Build7 == pc = "c11_build7" /\ Cell11BuildStep("net7", 7, "c11_apply3")

\* net3.apply(init_weights); net7.apply(init_weights)
Cell11ApplyStep(v, nextpc) ==
    /\ ApplyInit(v)
    /\ pc' = nextpc
    /\ i' = 1
    /\ UNCHANGED <<heap0, env, args, raised, out, ncalls, built, evalLog, k, run>>

Cell11Apply3 == pc = "c11_apply3" /\ Cell11ApplyStep("net3", "c11_apply7")

Cell11Apply7Skipped ==
    /\ pc = "c11_apply7"
    /\ pc' = "c11_eval3"
    /\ i' = 1
    /\ lastOp' = "apply"
    /\ UNCHANGED <<heap, heap0, env, args, raised, draws, inits, out, ncalls,
                   built, evalLog, k, run>>

Cell11Apply7 == pc = "c11_apply7" /\ Cell11ApplyStep("net7", "c11_eval3")

\* one iteration of `for xi, yi in zip(xx, yy)`: net3(i), then net7(i)
Cell11Eval3 ==
    /\ pc = "c11_eval3"
    /\ Eval("net3", 2)
    /\ LogEval(11, "net3", 1)
    /\ pc' = "c11_eval7"
    /\ UNCHANGED <<heap, heap0, env, args, raised, draws, inits, ncalls, built,
                   k, run, i>>

Cell11Eval7 ==
    /\ pc = "c11_eval7"
    /\ Eval("net7", 2)
    /\ LogEval(11, "net7", 1)
    /\ IF i < NSamples THEN i' = i + 1 /\ pc' = "c11_eval3"
                       ELSE i' = i /\ pc' = "done"
    /\ UNCHANGED <<heap, heap0, env, args, raised, draws, inits, ncalls, built,
                   k, run>>

FlowNext ==
    \/ Cell7Build \/ Cell7Apply \/ Cell7Eval
    \/ Cell9Build \/ Cell9Apply \/ Cell9Eval
    \/ Cell11Build3 \/ Cell11Build7
    \/ Cell11Apply3 \/ Cell11Apply7
    \/ Cell11Eval3 \/ Cell11Eval7

FlowSpec == FlowInit /\ [][FlowNext]_vars

\* ================================================================ claims
Supported == {"tanh", "relu"}
Called == lastOp # "none"
HasNet == env.net # 0
AllLinears(h) == {m \in 1 .. Len(h) : h[m].type = "Linear"}

\* C1: a network built with a supported activation, n_hidden_layers >= 1 and
\* n_hidden_dimension >= 1 contains exactly n_hidden_layers + 1 Linear
\* layers, counted over the whole nested structure.
C1_AffineCount ==
    (HasNet /\ args.n_hidden_layers >= 1 /\ args.n_hidden_dimension >= 1)
        => /\ Len(LinearsOf(heap, env.net)) = args.n_hidden_layers + 1
           /\ Cardinality(AllLinears(heap)) = args.n_hidden_layers + 1

C1_Witness == HasNet /\ args.n_hidden_layers >= 3

\* C2: construction succeeds for tanh and relu; for any other activation the
\* call raises before any layer is created and no network is returned,
\* whatever the other four arguments are.
C2_ActivationCheck ==
    Called =>
        /\ args.activation \in Supported
             => ~raised /\ HasNet /\ heap[env.net].type = "Sequential"
        /\ args.activation \notin Supported
             => raised /\ ~HasNet /\ heap = <<>>

C2_Witness == Called /\ raised /\ args.activation = "sigmoid"

\* C3: for n_hidden_layers >= 1 the evaluation-order flattening is
\* Affine(in -> hidden), Activation, (n_hidden_layers - 1) times
\* [Affine(hidden -> hidden), Activation], Affine(hidden -> out) last with no
\* activation after it; every activation is of the requested kind and the
\* widths of consecutive affine layers chain.
ActivationKind(activation) == IF activation = "tanh" THEN "Tanh" ELSE "ReLU"

ExpectedLayers(a, n) ==
    [j \in 1 .. 2 * n + 1 |->
        IF j = 2 * n + 1
            THEN <<"Affine", a.n_hidden_dimension, a.n_class>>
        ELSE IF j % 2 = 0
            THEN <<"Activation", ActivationKind(a.activation), 0>>
        ELSE IF j = 1
            THEN <<"Affine", a.n_network, a.n_hidden_dimension>>
        ELSE <<"Affine", a.n_hidden_dimension, a.n_hidden_dimension>>]

C3_LayerSequence ==
    (HasNet /\ args.n_hidden_layers >= 1) =>
        LET lins == LinearsOf(heap, env.net) IN
        /\ FlatDesc(heap, env.net) = ExpectedLayers(args, args.n_hidden_layers)
        /\ \A j \in 1 .. Len(lins) - 1 :
               heap[lins[j]].out_features = heap[lins[j + 1]].in_features

C3_Witness ==
    /\ HasNet
    /\ args.n_hidden_layers >= 2
    /\ args.n_network # args.n_hidden_dimension
    /\ args.n_hidden_dimension # args.n_class
    /\ args.activation = "relu"

\* C4: one net.apply(init_weights) overwrites the weight and the bias of
\* every Linear layer of the network, at any nesting depth: after the call
\* no such parameter holds a tensor drawn before the call (or the default).
C4_ApplyOverwritesAll ==
    [][(lastOp' = "apply" /\ ncalls' = ncalls + 1) =>
          /\ \A m \in AllLinears(heap') :
                heap'[m].weight.draw > draws /\ heap'[m].bias.draw > draws
          /\ \A j \in 1 .. Len(LinearsOf(heap', env'.net)) :
                LET m == LinearsOf(heap', env'.net)[j] IN
                heap'[m].weight.draw > draws /\ heap'[m].bias.draw > draws]_vars

C4_Witness ==
    /\ HasNet
    /\ lastOp = "apply"
    /\ inits[env.net] >= 2
    /\ Depth(heap, env.net) >= 3

\* C5: after any number of init calls the layer sequence, the kind of each
\* layer and the dimensions of every weight and bias are as right after
\* construction; activation layers and containers are not modified.
C5_StructureUnchanged ==
    HasNet =>
        /\ Len(heap) = Len(heap0)
        /\ Structure(heap) = Structure(heap0)
        /\ \A m \in 1 .. Len(heap) : heap[m].type # "Linear" => heap[m] = heap0[m]

C5_Witness == HasNet /\ inits[env.net] >= 2 /\ lastOp = "apply"

\* C6: for every n_hidden_layers >= 0, 0 included, the built network has
\* n_hidden_layers + 1 affine layers and its last layer is affine.
C6_InvariantFromZero ==
    (HasNet /\ args.n_hidden_layers >= 0) =>
        LET f == Flatten(heap, env.net) IN
        /\ Len(LinearsOf(heap, env.net)) = args.n_hidden_layers + 1
        /\ heap[f[Len(f)]].type = "Linear"

C8_SameDistribution ==
    (HasNet /\ inits[env.net] >= 1) =>
        \A m \in AllLinears(heap) :
            /\ heap[m].weight.dist = [kind |-> "normal", mean |-> 0, stdTenths |-> 5]
            /\ heap[m].bias.dist = [kind |-> "normal", mean |-> 0, stdTenths |-> 5]

C8_Witness == HasNet /\ inits[env.net] >= 2 /\ args.n_hidden_layers >= 2

\* C9: in the notebook's cells each network is built once per outer
\* iteration, every evaluation of a network reads only parameters written
\* by an init call on that network, and all evaluations of one run read the
\* parameters of the init call that opened the run.
C9_EvalAfterInit ==
    /\ \A e \in evalLog :
          /\ e.inits >= 1
          /\ e.inits = e.run
          /\ \A j \in 1 .. Len(e.reads) : e.reads[j] > 0
          /\ \E b \in built : b.net = e.net /\ b.cell = e.cell /\ b.k = e.k
    /\ \A e1, e2 \in evalLog :
          (e1.net = e2.net /\ e1.run = e2.run) => e1.reads = e2.reads
    /\ \A b1, b2 \in built :
          (b1.cell = b2.cell /\ b1.k = b2.k /\ b1.var = b2.var) => b1.net = b2.net

C9_Witness ==
    /\ pc = "done"
    /\ \E e \in evalLog : e.cell = 7 /\ e.k = 2 /\ e.run = nruns7
    /\ \E e \in evalLog : e.cell = 9 /\ e.k = 2 /\ e.run = nruns9
    /\ \E e \in evalLog : e.cell = 11 /\ e.net = env.net7

\* C10: the built network is left-nested: the top container has exactly two
\* children, a nested container and the output Linear, so the top-level
\* list holds one Linear and misses the others; the nesting depth is one
\* more than the number of hidden affine layers.
C10_LeftNested ==
    HasNet =>
        LET top == heap[env.net]
            f == Flatten(heap, env.net)
            hidden == IF args.n_hidden_layers >= 1 THEN args.n_hidden_layers ELSE 1
        IN  /\ top.type = "Sequential"
            /\ Len(top.children) = 2
            /\ heap[top.children[1]].type = "Sequential"
            /\ heap[top.children[2]].type = "Linear"
            /\ top.children[2] = f[Len(f)]
            /\ Len(LinearsOf(heap, env.net)) > 1
            /\ Depth(heap, env.net) = hidden + 1

C10_Witness == HasNet /\ args.n_hidden_layers >= 2 /\ lastOp = "build"
====
